---- MODULE Spec2Model ----
(***************************************************************************)
(* Session cache of the Apex Analyst backend                               *)
(* (src/backend/app/services/session_service.py, class SessionManager).    *)
(*                                                                         *)
(* The four class-level dictionaries are shared by the request contexts    *)
(* that call get_session / ensure_telemetry_loaded / clear_session / ...   *)
(* and by the two threads of the module-level ThreadPoolExecutor that run  *)
(* _upgrade_session_sync.  There is no lock in the source, so every        *)
(* statement that reads or writes a dictionary (or a dictionary object     *)
(* held by reference) is one step of the thread that executes it.  Entering *)
(* a method, or taking a task from the executor queue, touches nothing     *)
(* another thread reads, so it is one step with the method's first         *)
(* statement.  A fetch (session.load) is a step of its own: it ends with   *)
(* success or with an exception.                                           *)
(*                                                                         *)
(* Python objects are modelled as references into two heaps:               *)
(*   objTel[r]   - the fastf1 session object r has telemetry loaded        *)
(*   metaFull[r] - the metadata dict r has "full_load": True               *)
(* so that a dict object held by a thread and later stored under a key     *)
(* keeps its identity, as it does in the source.                           *)
(***************************************************************************)
EXTENDS Integers, Naturals, Sequences, FiniteSets, TLC

\* ---------------------------------------------------------------- bounds
NumIds == 2          \* distinct session identifiers (fingerprints)
MaxCalls == 4        \* API calls issued in one run

MaxNameLen == 2      \* longest grand_prix string given to _generate_session_id

\* ------------------------------------------------------ program constants
NumWorkers == 2      \* ThreadPoolExecutor(max_workers=2)
NumCallers == 1      \* request contexts inside the cache at the same time: every
                     \* route handler is a coroutine that never awaits and the
                     \* server runs one event loop (main.py line 190), so the
                     \* handlers run one at a time

Ids == 1..NumIds
Callers == 1..NumCallers
Workers == (NumCallers + 1)..(NumCallers + NumWorkers)
Threads == Callers \cup Workers

\* LoadingState enum values that the code assigns; "absent" is a missing key,
\* which get_loading_state reports as PENDING.
LoadingState == {"loading_basic", "loading_telemetry", "ready", "error"}

VARIABLES
  sessions,          \* _sessions:         id -> session object ref, 0 = no key
  session_metadata,  \* _session_metadata: id -> metadata dict ref,  0 = no key
  loading_states,    \* _loading_states:   id -> LoadingState or "absent"
  loading_futures,   \* _loading_futures:  id -> future ref, 0 = no key
  objTel,            \* heap of session objects: telemetry loaded?
  objFetches,        \* heap of session objects: full fetches started on the object
  metaFull,          \* heap of metadata dicts: value of "full_load"
  futures,           \* heap of Future objects: [sid, st]
  queue,             \* executor work queue (future refs, FIFO)
  pc,                \* per thread: statement about to execute
  frame,             \* per thread: local variables of the running call
  nReduced,          \* per id: reduced fetches started since the last evict
  timedOut,          \* ids on which a wait of line 195 timed out since the last evict
  syncFailed,        \* ids on which a fetch run inline by ensure_telemetry_loaded
                     \* (lines 200, 204) has failed since the last evict
  calls,             \* API calls issued so far
  touched,           \* identifiers requested so far are 1..touched
  fpIn,              \* _generate_session_id: two argument triples, <<>> = none
  fpKey              \* _generate_session_id: their key strings, <<>> = not computed

maps == <<sessions, session_metadata, loading_states, loading_futures>>
heap == <<objTel, objFetches, metaFull>>
pool == <<futures, queue>>
counts == <<nReduced, timedOut, syncFailed>>
budget == <<calls, touched>>
fp == <<fpIn, fpKey>>
vars == <<sessions, session_metadata, loading_states, loading_futures,
          objTel, objFetches, metaFull, futures, queue, pc, frame, nReduced, timedOut,
          syncFailed, calls, touched, fpIn, fpKey>>

\* no request body / no listing built yet
NoRequest == [year |-> 0, grand_prix |-> 0, session_name |-> "none"]
NoInfo == [i \in {} |-> 0]

Blank == [op |-> "none", sid |-> 0, quick |-> FALSE, metadata |-> 0,
          session |-> 0, future |-> 0, cont |-> "none", ret |-> "none", rv |-> 0,
          req |-> NoRequest, info |-> NoInfo, size |-> -1, norecord |-> FALSE]

Init ==
  /\ sessions = [i \in Ids |-> 0]
  /\ session_metadata = [i \in Ids |-> 0]
  /\ loading_states = [i \in Ids |-> "absent"]
  /\ loading_futures = [i \in Ids |-> 0]
  /\ objTel = <<>>
  /\ objFetches = <<>>
  /\ metaFull = <<>>
  /\ futures = <<>>
  /\ queue = <<>>
  /\ pc = [t \in Threads |-> "idle"]
  /\ frame = [t \in Threads |-> Blank]
  /\ nReduced = [i \in Ids |-> 0]
  /\ timedOut = {}
  /\ syncFailed = {}
  /\ calls = 0
  /\ touched = 0
  /\ fpIn = <<>>
  /\ fpKey = <<>>

\* metadata.get("full_load", False) on a dict reference (0 = the default {})
full_load(m) == IF m = 0 THEN FALSE ELSE metaFull[m]

\* self._session_metadata.get(session_id, {}).get("full_load", False)
is_fully_loaded(i) == full_load(session_metadata[i])

\* get_loading_state: self._loading_states.get(session_id, PENDING)
get_loading_state(i) == IF loading_states[i] = "absent" THEN "pending" ELSE loading_states[i]

\* get_session_by_id: self._sessions.get(session_id)
get_session_by_id(i) == sessions[i]

\* A call returns (or raises) in thread c: the result stays readable in the
\* frame until the context issues its next call.
Return(c, r, v) ==
  /\ pc' = [pc EXCEPT ![c] = "idle"]
  /\ frame' = [frame EXCEPT ![c] = [Blank EXCEPT !.op = frame[c].op, !.sid = frame[c].sid,
                                                 !.cont = frame[c].cont,
                                                 !.ret = r, !.rv = v]]

Goto(t, l) == pc' = [pc EXCEPT ![t] = l]

\* Request contexts are interchangeable: a new call is taken by the lowest
\* idle one.
CanStart(c) ==
  /\ pc[c] = "idle"
  /\ calls < MaxCalls
  /\ \A d \in Callers : d < c => pc[d] # "idle"

\* Identifiers are opaque hashes, hence interchangeable: a call names an
\* identifier requested before, or the lowest one not requested yet.
Requestable == {i \in Ids : i <= touched + 1}

\* A call starts in context c with the frame f, at statement l.
Begin(c, f, l) ==
  /\ CanStart(c)
  /\ calls' = calls + 1
  /\ touched' = IF f.sid > touched THEN f.sid ELSE touched
  /\ pc' = [pc EXCEPT ![c] = l]
  /\ frame' = [frame EXCEPT ![c] = f]
  /\ UNCHANGED fp

\* ------------------------------------------------------------ get_session
\* Variant of CallGetSession with lines 168-170 outside the if of line 163:
\* every quick call submits an upgrade, also for a cached identifier.
CallGetSession_resubmits(c) ==
  \E i \in Requestable, q \in BOOLEAN :
    /\ IF sessions[i] = 0
         THEN Begin(c, [Blank EXCEPT !.op = "get_session", !.sid = i, !.quick = q], "ld82")
         ELSE Begin(c, [Blank EXCEPT !.op = "get_session", !.sid = i, !.quick = q,
                                     !.cont = "gs172"], IF q THEN "gs169" ELSE "gs174")
    /\ UNCHANGED <<maps, heap, pool, counts>>

\* A request context calls get_session(year, grand_prix, session_name, quick);
\* i is the identifier _generate_session_id gives the triple (line 161).
\* Line 163: if session_id not in self._sessions; cont = "gs172" records
\* that the call took the else branch (lines 171-172).
CallGetSession(c) ==
  \E i \in Requestable, q \in BOOLEAN :
    /\ IF sessions[i] = 0
         THEN Begin(c, [Blank EXCEPT !.op = "get_session", !.sid = i, !.quick = q], "ld82")
         ELSE Begin(c, [Blank EXCEPT !.op = "get_session", !.sid = i, !.quick = q,
                                     !.cont = "gs172"], "gs174")
    /\ UNCHANGED <<maps, heap, pool, counts>>

\* _load_session_sync line 82; in quick mode the reduced fetch (lines 85-95)
\* starts right after it.  From here on the cache reads nothing of the
\* request but the identifier, so the frame lets the body go.
LD82(c) ==
  /\ pc[c] = "ld82"
  /\ loading_states' = [loading_states EXCEPT ![frame[c].sid] = "loading_basic"]
  /\ IF frame[c].quick
       THEN /\ nReduced' = [nReduced EXCEPT ![frame[c].sid] = @ + 1]
            /\ Goto(c, "ld90")
       ELSE /\ UNCHANGED nReduced
            /\ Goto(c, "ld98")
  /\ frame' = [frame EXCEPT ![c].req = NoRequest]
  /\ UNCHANGED <<sessions, session_metadata, loading_futures, heap, pool, timedOut, syncFailed, budget, fp>>

\* line 98, then session.load() (line 99) starts: a full-fidelity fetch
LD98(c) ==
  /\ pc[c] = "ld98"
  /\ loading_states' = [loading_states EXCEPT ![frame[c].sid] = "loading_telemetry"]
  /\ Goto(c, "ld99")
  /\ UNCHANGED <<sessions, session_metadata, loading_futures, heap, pool, counts, frame, budget, fp>>

\* session.load(...) of lines 90-95 / 99 returns: the session object is
\* populated (with telemetry only in full mode)
LoadFetchOk(c) ==
  /\ objTel' = Append(objTel, ~frame[c].quick)
  /\ objFetches' = Append(objFetches, IF frame[c].quick THEN 0 ELSE 1)
  /\ frame' = [frame EXCEPT ![c].session = Len(objTel) + 1]
  /\ Goto(c, "ld101")
  /\ UNCHANGED <<maps, metaFull, pool, counts, budget, fp>>

\* Variant of LoadFetchFails with the except clause of line 113 not re-raising:
\* get_session goes on to line 168 and submits the upgrade.
LoadFetchFails_submits(c) ==
  /\ loading_states' = [loading_states EXCEPT ![frame[c].sid] = "error"]
  /\ Goto(c, IF frame[c].quick THEN "gs169" ELSE "gs174")
  /\ UNCHANGED <<sessions, session_metadata, loading_futures, heap, pool, counts, frame, budget, fp>>

\* session.load(...) raises: lines 113-116
LoadFetchFails(c) ==
  /\ loading_states' = [loading_states EXCEPT ![frame[c].sid] = "error"]
  /\ Return(c, "FetchError", 0)
  /\ UNCHANGED <<sessions, session_metadata, loading_futures, heap, pool, counts, budget, fp>>

LoadFetchEnds(c) ==
  /\ pc[c] \in {"ld90", "ld99"}
  /\ (LoadFetchOk(c) \/ LoadFetchFails(c))

\* line 101
LD101(c) ==
  /\ pc[c] = "ld101"
  /\ sessions' = [sessions EXCEPT ![frame[c].sid] = frame[c].session]
  /\ Goto(c, "ld102")
  /\ UNCHANGED <<session_metadata, loading_states, loading_futures, heap, pool, counts, frame, budget, fp>>

\* lines 102-108: a new metadata dict with "full_load": not quick
LD102(c) ==
  /\ pc[c] = "ld102"
  /\ metaFull' = Append(metaFull, ~frame[c].quick)
  /\ session_metadata' = [session_metadata EXCEPT ![frame[c].sid] = Len(metaFull) + 1]
  /\ Goto(c, "ld109")
  /\ UNCHANGED <<sessions, loading_states, loading_futures, objTel, objFetches, pool, counts, frame, budget, fp>>

\* line 109, return to get_session line 168
LD109(c) ==
  /\ pc[c] = "ld109"
  /\ loading_states' = [loading_states EXCEPT ![frame[c].sid] = "ready"]
  /\ Goto(c, IF frame[c].quick THEN "gs169" ELSE "gs174")
  /\ UNCHANGED <<sessions, session_metadata, loading_futures, heap, pool, counts, frame, budget, fp>>

\* line 169: executor.submit(self._upgrade_session_sync, session_id)
GS169(c) ==
  /\ pc[c] = "gs169"
  /\ futures' = Append(futures, [sid |-> frame[c].sid, st |-> "pending"])
  /\ queue' = Append(queue, Len(futures) + 1)
  /\ frame' = [frame EXCEPT ![c].future = Len(futures) + 1]
  /\ Goto(c, "gs170")
  /\ UNCHANGED <<maps, heap, counts, budget, fp>>

\* line 170
GS170(c) ==
  /\ pc[c] = "gs170"
  /\ loading_futures' = [loading_futures EXCEPT ![frame[c].sid] = frame[c].future]
  /\ Goto(c, "gs174")
  /\ UNCHANGED <<sessions, session_metadata, loading_states, heap, pool, counts, frame, budget, fp>>

\* line 174: return session_id, self._sessions[session_id]
GS174(c) ==
  /\ pc[c] = "gs174"
  /\ IF sessions[frame[c].sid] = 0
       THEN Return(c, "KeyError", 0)
       ELSE Return(c, "handle", sessions[frame[c].sid])
  /\ UNCHANGED <<maps, heap, pool, counts, budget, fp>>

\* ---------------------------------------------------- _upgrade_session_sync
\* The routine runs in a pool thread (submitted at line 169) or inline in a
\* request context (lines 200, 204).  Its return ends the pool thread's task
\* (the Future becomes done; how records which way the routine left) or
\* resumes ensure_telemetry_loaded at the line kept in cont.
UpgradeReturn(t, how) ==
  IF t \in Workers
    THEN /\ futures' = [futures EXCEPT ![frame[t].future].st = how]
         /\ pc' = [pc EXCEPT ![t] = "idle"]
         /\ frame' = [frame EXCEPT ![t] = Blank]
    ELSE /\ pc' = [pc EXCEPT ![t] = frame[t].cont]
         /\ frame' = [frame EXCEPT ![t].metadata = 0, ![t].session = 0]
         /\ UNCHANGED futures

\* A pool thread takes the oldest queued task (pool threads are
\* interchangeable: the lowest idle one takes it) and runs lines 120-121.
TakeTask(w) ==
  /\ pc[w] = "idle"
  /\ queue # <<>>
  /\ \A v \in Workers : v < w => pc[v] # "idle"
  /\ queue' = Tail(queue)
  /\ IF sessions[futures[Head(queue)].sid] = 0
       THEN /\ futures' = [futures EXCEPT ![Head(queue)].st = "done_skip"]
            /\ UNCHANGED <<pc, frame>>
       ELSE /\ futures' = [futures EXCEPT ![Head(queue)].st = "running"]
            /\ frame' = [frame EXCEPT ![w] = [Blank EXCEPT !.op = "upgrade",
                                                           !.sid = futures[Head(queue)].sid,
                                                           !.future = Head(queue),
                                                           !.cont = "worker"]]
            /\ Goto(w, "up123")
  /\ UNCHANGED <<maps, heap, counts, budget, fp>>

\* lines 120-121, inline in a request context
UP120(c) ==
  /\ pc[c] = "up120"
  /\ IF sessions[frame[c].sid] = 0
       THEN UpgradeReturn(c, "done_skip")
       ELSE Goto(c, "up123") /\ UNCHANGED <<frame, futures>>
  /\ UNCHANGED <<maps, heap, queue, counts, budget, fp>>

\* line 123: metadata = self._session_metadata.get(session_id, {})
\* (the default is a fresh dict, which line 142 may store)
UP123(t) ==
  /\ pc[t] = "up123"
  /\ IF session_metadata[frame[t].sid] # 0
       THEN /\ frame' = [frame EXCEPT ![t].metadata = session_metadata[frame[t].sid]]
            /\ UNCHANGED metaFull
       ELSE /\ metaFull' = Append(metaFull, FALSE)
            /\ frame' = [frame EXCEPT ![t].metadata = Len(metaFull) + 1]
  /\ Goto(t, "up124")
  /\ UNCHANGED <<maps, objTel, objFetches, pool, counts, budget, fp>>

\* lines 124-125
UP124(t) ==
  /\ pc[t] = "up124"
  /\ IF full_load(frame[t].metadata)
       THEN UpgradeReturn(t, "done_skip")
       ELSE Goto(t, "up128") /\ UNCHANGED <<frame, futures>>
  /\ UNCHANGED <<maps, heap, queue, counts, budget, fp>>

\* line 128
UP128(t) ==
  /\ pc[t] = "up128"
  /\ loading_states' = [loading_states EXCEPT ![frame[t].sid] = "loading_telemetry"]
  /\ Goto(t, "up129")
  /\ UNCHANGED <<sessions, session_metadata, loading_futures, heap, pool, counts, frame, budget, fp>>

\* line 129: session = self._sessions[session_id] (KeyError goes to line 147),
\* then session.load(telemetry=True, weather=True) of line 134 starts.
UP129(t) ==
  /\ pc[t] = "up129"
  /\ IF sessions[frame[t].sid] = 0
       THEN Goto(t, "up150") /\ UNCHANGED <<frame, objFetches>>
       ELSE /\ frame' = [frame EXCEPT ![t].session = sessions[frame[t].sid]]
            /\ objFetches' = [objFetches EXCEPT ![sessions[frame[t].sid]] = @ + 1]
            /\ Goto(t, "up134")
  /\ UNCHANGED <<maps, objTel, metaFull, pool, counts, budget, fp>>

\* line 134 returns: the session object now holds telemetry; line 141 sets
\* "full_load" in the dict the thread holds.
UpgradeFetchOk(t) ==
  /\ objTel' = [objTel EXCEPT ![frame[t].session] = TRUE]
  /\ metaFull' = [metaFull EXCEPT ![frame[t].metadata] = TRUE]
  /\ Goto(t, "up142")
  /\ UNCHANGED <<maps, objFetches, pool, counts, frame, budget, fp>>

\* Variant of UpgradeFetchFails with line 141 in a finally clause: the dict is
\* flagged although the fetch raised.
UpgradeFetchFails_flags(t) ==
  /\ metaFull' = [metaFull EXCEPT ![frame[t].metadata] = TRUE]
  /\ Goto(t, "up150")
  /\ syncFailed' = IF t \in Callers THEN syncFailed \cup {frame[t].sid} ELSE syncFailed
  /\ UNCHANGED <<maps, objTel, objFetches, pool, nReduced, timedOut, frame, budget, fp>>

\* line 134 raises: control goes to the handler of line 147
UpgradeFetchFails(t) ==
  /\ Goto(t, "up150")
  /\ syncFailed' = IF t \in Callers THEN syncFailed \cup {frame[t].sid} ELSE syncFailed
  /\ UNCHANGED <<maps, heap, pool, nReduced, timedOut, frame, budget, fp>>

UP134(t) ==
  /\ pc[t] = "up134"
  /\ (UpgradeFetchOk(t) \/ UpgradeFetchFails(t))

\* line 142
UP142(t) ==
  /\ pc[t] = "up142"
  /\ session_metadata' = [session_metadata EXCEPT ![frame[t].sid] = frame[t].metadata]
  /\ Goto(t, "up143")
  /\ UNCHANGED <<sessions, loading_states, loading_futures, heap, pool, counts, frame, budget, fp>>

\* Variant of UP143 without line 143: the routine returns with the state
\* left at LOADING_TELEMETRY.
UP143_keeps(t) ==
  /\ pc[t] = "up143"
  /\ UpgradeReturn(t, "done_ok")
  /\ UNCHANGED <<maps, heap, queue, counts, budget, fp>>

\* line 143, return
UP143(t) ==
  /\ pc[t] = "up143"
  /\ loading_states' = [loading_states EXCEPT ![frame[t].sid] = "ready"]
  /\ UpgradeReturn(t, "done_ok")
  /\ UNCHANGED <<sessions, session_metadata, loading_futures, heap, queue, counts, budget, fp>>

\* lines 147-150, return
UP150(t) ==
  /\ pc[t] = "up150"
  /\ loading_states' = [loading_states EXCEPT ![frame[t].sid] = "ready"]
  /\ UpgradeReturn(t, "done_fail")
  /\ UNCHANGED <<sessions, session_metadata, loading_futures, heap, queue, counts, budget, fp>>

\* ------------------------------------------------- ensure_telemetry_loaded
\* A request context calls ensure_telemetry_loaded(session_id); line 186.
\* norecord notes that none of the four dictionaries had the key at the call.
CallEnsure(c) ==
  \E i \in Requestable :
    /\ Begin(c, [Blank EXCEPT !.op = "ensure", !.sid = i, !.metadata = session_metadata[i],
                              !.norecord = /\ sessions[i] = 0
                                           /\ session_metadata[i] = 0
                                           /\ loading_states[i] = "absent"
                                           /\ loading_futures[i] = 0],
             "en188")
    /\ UNCHANGED <<maps, heap, pool, counts>>

\* Variant of EN188 without the check of lines 188-189: the call always goes
\* on to the future.
EN188_waits(c) ==
  /\ pc[c] = "en188"
  /\ Goto(c, "en192") /\ frame' = [frame EXCEPT ![c].metadata = 0]
  /\ UNCHANGED <<maps, heap, pool, counts, budget, fp>>

\* lines 188-189
EN188(c) ==
  /\ pc[c] = "en188"
  /\ IF full_load(frame[c].metadata)
       THEN Return(c, "True", 0)
       ELSE Goto(c, "en192") /\ frame' = [frame EXCEPT ![c].metadata = 0]
  /\ UNCHANGED <<maps, heap, pool, counts, budget, fp>>

\* lines 192-193, and 204 when there is no future
EN192(c) ==
  /\ pc[c] = "en192"
  /\ IF loading_futures[frame[c].sid] # 0
       THEN /\ frame' = [frame EXCEPT ![c].future = loading_futures[frame[c].sid]]
            /\ Goto(c, "en195")
       ELSE /\ frame' = [frame EXCEPT ![c].cont = "en205"]
            /\ Goto(c, "up120")
  /\ UNCHANGED <<maps, heap, pool, counts, budget, fp>>

Done(f) == futures[f].st \in {"done_ok", "done_fail", "done_skip"}

\* lines 195-196: future.result() returns (the routine raises nothing)
EN195Done(c) ==
  /\ pc[c] = "en195"
  /\ Done(frame[c].future)
  /\ Return(c, "True", 0)
  /\ UNCHANGED <<maps, heap, pool, counts, budget, fp>>

\* lines 195, 197-200: the 120 s pass before the future is done; TimeoutError
\* is an Exception, so the handler calls _upgrade_session_sync inline
EN195Timeout(c) ==
  /\ pc[c] = "en195"
  /\ ~Done(frame[c].future)
  /\ frame' = [frame EXCEPT ![c].cont = "en201"]
  /\ timedOut' = timedOut \cup {frame[c].sid}
  /\ UNCHANGED syncFailed
  /\ Goto(c, "up120")
  /\ UNCHANGED <<maps, heap, pool, nReduced, budget, fp>>

\* lines 201 and 205
ENReturn(c) ==
  /\ pc[c] \in {"en201", "en205"}
  /\ Return(c, IF is_fully_loaded(frame[c].sid) THEN "True" ELSE "False", 0)
  /\ UNCHANGED <<maps, heap, pool, counts, budget, fp>>

\* ----------------------------------------------------------- clear_session
\* A request context calls clear_session(session_id); lines 313 and 319
\* Variant of CallClearSession with the pop of line 316 outside the if of
\* line 313: the loading state goes also when no dataset is cached.
CallClearSession_pops(c) ==
  \E i \in Requestable :
    /\ IF sessions[i] # 0
         THEN /\ Begin(c, [Blank EXCEPT !.op = "clear_session", !.sid = i], "cs314")
              /\ UNCHANGED maps
         ELSE /\ Begin(c, [Blank EXCEPT !.op = "clear_session", !.sid = i, !.ret = "False"], "idle")
              /\ loading_states' = [loading_states EXCEPT ![i] = "absent"]
              /\ UNCHANGED <<sessions, session_metadata, loading_futures>>
    /\ UNCHANGED <<heap, pool, counts>>

CallClearSession(c) ==
  \E i \in Requestable :
    /\ IF sessions[i] # 0
         THEN Begin(c, [Blank EXCEPT !.op = "clear_session", !.sid = i], "cs314")
         ELSE Begin(c, [Blank EXCEPT !.op = "clear_session", !.sid = i, !.ret = "False"], "idle")
    /\ UNCHANGED <<maps, heap, pool, counts>>

\* line 314; the record's lifetime ends here, so the per-identifier history
\* (nReduced, timedOut, syncFailed) restarts
CS314(c) ==
  /\ pc[c] = "cs314"
  /\ IF sessions[frame[c].sid] = 0
       THEN Return(c, "KeyError", 0) /\ UNCHANGED <<sessions, counts>>
       ELSE /\ sessions' = [sessions EXCEPT ![frame[c].sid] = 0]
            /\ nReduced' = [nReduced EXCEPT ![frame[c].sid] = 0]
            /\ timedOut' = timedOut \ {frame[c].sid}
            /\ syncFailed' = syncFailed \ {frame[c].sid}
            /\ Goto(c, "cs315") /\ UNCHANGED frame
  /\ UNCHANGED <<session_metadata, loading_states, loading_futures, heap, pool, budget, fp>>

\* line 315
CS315(c) ==
  /\ pc[c] = "cs315"
  /\ IF session_metadata[frame[c].sid] = 0
       THEN Return(c, "KeyError", 0) /\ UNCHANGED session_metadata
       ELSE /\ session_metadata' = [session_metadata EXCEPT ![frame[c].sid] = 0]
            /\ Goto(c, "cs316") /\ UNCHANGED frame
  /\ UNCHANGED <<sessions, loading_states, loading_futures, heap, pool, counts, budget, fp>>

\* Variant of CS316 with line 316 clearing the whole dictionary instead of
\* popping one key.
CS316_all(c) ==
  /\ pc[c] = "cs316"
  /\ loading_states' = [i \in Ids |-> "absent"]
  /\ Goto(c, "cs317")
  /\ UNCHANGED <<sessions, session_metadata, loading_futures, heap, pool, counts, frame, budget, fp>>

\* line 316
CS316(c) ==
  /\ pc[c] = "cs316"
  /\ loading_states' = [loading_states EXCEPT ![frame[c].sid] = "absent"]
  /\ Goto(c, "cs317")
  /\ UNCHANGED <<sessions, session_metadata, loading_futures, heap, pool, counts, frame, budget, fp>>

\* lines 317-318
CS317(c) ==
  /\ pc[c] = "cs317"
  /\ loading_futures' = [loading_futures EXCEPT ![frame[c].sid] = 0]
  /\ Return(c, "True", 0)
  /\ UNCHANGED <<sessions, session_metadata, loading_states, heap, pool, counts, budget, fp>>

\* ------------------------------------------------------ clear_all_sessions
\* A request context calls clear_all_sessions(); line 323
CallClearAll(c) ==
  /\ Begin(c, [Blank EXCEPT !.op = "clear_all",
                            !.rv = Cardinality({i \in Ids : sessions[i] # 0})], "ca324")
  /\ UNCHANGED <<maps, heap, pool, counts>>

\* line 324; every record's lifetime ends here
CA324(c) ==
  /\ pc[c] = "ca324"
  /\ sessions' = [i \in Ids |-> 0]
  /\ nReduced' = [i \in Ids |-> 0]
  /\ timedOut' = {}
  /\ syncFailed' = {}
  /\ Goto(c, "ca325")
  /\ UNCHANGED <<session_metadata, loading_states, loading_futures, heap, pool, frame, budget, fp>>

\* line 325
CA325(c) ==
  /\ pc[c] = "ca325"
  /\ session_metadata' = [i \in Ids |-> 0]
  /\ Goto(c, "ca326")
  /\ UNCHANGED <<sessions, loading_states, loading_futures, heap, pool, counts, frame, budget, fp>>

\* line 326
CA326(c) ==
  /\ pc[c] = "ca326"
  /\ loading_states' = [i \in Ids |-> "absent"]
  /\ Goto(c, "ca327")
  /\ UNCHANGED <<sessions, session_metadata, loading_futures, heap, pool, counts, frame, budget, fp>>

\* lines 327-328
CA327(c) ==
  /\ pc[c] = "ca327"
  /\ loading_futures' = [i \in Ids |-> 0]
  /\ Return(c, "count", frame[c].rv)
  /\ UNCHANGED <<sessions, session_metadata, loading_states, heap, pool, counts, budget, fp>>

\* -------------------------------------------------------- read-only methods
\* A request context calls get_session_by_id(session_id): lines 176-178
CallGetSessionById(c) ==
  \E i \in Requestable :
    /\ Begin(c, [Blank EXCEPT !.op = "get_session_by_id", !.sid = i,
                              !.ret = IF get_session_by_id(i) = 0 THEN "None" ELSE "handle",
                              !.rv = get_session_by_id(i)], "idle")
    /\ UNCHANGED <<maps, heap, pool, counts>>

\* A request context calls get_loading_state(session_id): lines 70-72
CallGetLoadingState(c) ==
  \E i \in Requestable :
    /\ Begin(c, [Blank EXCEPT !.op = "get_loading_state", !.sid = i,
                              !.ret = get_loading_state(i)], "idle")
    /\ UNCHANGED <<maps, heap, pool, counts>>

\* keys of _session_metadata
metadata_keys == {i \in Ids : session_metadata[i] # 0}

\* lines 335-338: the entry built for one item of _session_metadata (of the
\* metadata fields only full_load is modelled)
cache_entry(i) == [full_load |-> is_fully_loaded(i), loading_state |-> get_loading_state(i)]

\* get_cache_info (lines 330-341) when nothing runs between its reads
get_cache_info ==
  [cached_sessions |-> Cardinality({i \in Ids : sessions[i] # 0}),
   sessions |-> [i \in metadata_keys |-> cache_entry(i)]]

\* A request context calls get_cache_info(); line 333: len(self._sessions)
CallGetCacheInfo(c) ==
  /\ Begin(c, [Blank EXCEPT !.op = "get_cache_info",
                            !.rv = Cardinality({i \in Ids : sessions[i] # 0})], "gi339")
  /\ UNCHANGED <<maps, heap, pool, counts>>

\* lines 334-340: one round of the comprehension over
\* self._session_metadata.items().  frame.sid is the last key visited and
\* frame.size the size of the dict when the iterator was made (-1: not made
\* yet); the iterator raises RuntimeError when the dict has changed size.
GI339(c) ==
  /\ pc[c] = "gi339"
  /\ LET rest == {i \in metadata_keys : i > frame[c].sid}
         next == CHOOSE i \in rest : \A j \in rest : i <= j
     IN IF frame[c].size # -1 /\ frame[c].size # Cardinality(metadata_keys)
          THEN /\ pc' = [pc EXCEPT ![c] = "idle"]
               /\ frame' = [frame EXCEPT ![c] = [Blank EXCEPT !.op = "get_cache_info",
                                                              !.ret = "RuntimeError"]]
          ELSE IF rest = {}
            THEN /\ pc' = [pc EXCEPT ![c] = "idle"]
                 /\ frame' = [frame EXCEPT ![c] = [Blank EXCEPT !.op = "get_cache_info",
                                                                !.ret = "info",
                                                                !.rv = frame[c].rv,
                                                                !.info = frame[c].info]]
            ELSE /\ frame' = [frame EXCEPT ![c].sid = next,
                                           ![c].size = Cardinality(metadata_keys),
                                           ![c].info = [j \in DOMAIN frame[c].info \cup {next} |->
                                                         IF j = next THEN cache_entry(next)
                                                                     ELSE frame[c].info[j]]]
                 /\ UNCHANGED pc
  /\ UNCHANGED <<maps, heap, pool, counts, budget, fp>>

\* ------------------------------------------------- POST /load (load_session)
\* SessionType (schemas.py lines 16-23)
SessionType == {"FP1", "FP2", "FP3", "Q", "S", "SQ", "R"}

\* SessionLoadRequest (schemas.py lines 57-61): year ge/le, grand_prix
\* min_length, session_name an enum member.  grand_prix is modelled by its
\* length, the only thing the validation reads.
MinYear == 2018
MaxYear == 2025
MinLength == 1

\* Variant of Valid with the le=2025 and min_length=1 constraints left out
Valid_lax(req) ==
  /\ req.year >= MinYear
  /\ req.session_name \in SessionType

Valid(req) ==
  /\ req.year >= MinYear /\ req.year <= MaxYear
  /\ req.grand_prix >= MinLength
  /\ req.session_name \in SessionType

\* request bodies tried: the years around both limits, an empty and a
\* non-empty name, the enum values and a value outside the enum
Years == {MinYear - 1, MinYear, MaxYear, MaxYear + 1}
NameLens == {MinLength - 1, MinLength}
Kinds == SessionType \cup {"RACE"}
Requests == [year : Years, grand_prix : NameLens, session_name : Kinds]

\* POST /load: the body is validated against SessionLoadRequest before the
\* handler runs (a failure is answered with HTTP 422); the handler calls
\* get_session(year, grand_prix, session_name) with the default quick=True.
\* i is the identifier _generate_session_id gives the triple.
LoadSession(c) ==
  \E req \in Requests :
    /\ IF Valid(req)
         THEN \E i \in Requestable :
                IF sessions[i] = 0
                  THEN Begin(c, [Blank EXCEPT !.op = "get_session", !.sid = i, !.quick = TRUE,
                                              !.req = req], "ld82")
                  ELSE Begin(c, [Blank EXCEPT !.op = "get_session", !.sid = i, !.quick = TRUE,
                                              !.req = req, !.cont = "gs172"], "gs174")
         ELSE Begin(c, [Blank EXCEPT !.op = "load_session", !.ret = "HTTP422",
                                     !.req = req], "idle")
    /\ UNCHANGED <<maps, heap, pool, counts>>

\* ---------------------------------------------------- _generate_session_id
\* Strings are sequences of characters.  grand_prix is any string: the
\* characters tried are the separator, a digit and a letter of the kinds.
Chars == {"_", "1", "S"}
Names == UNION {[1..n -> Chars] : n \in 0..MaxNameLen}
FpYears == {1, 12, 2018}

\* the values of SessionType (schemas.py lines 16-23) as strings
KindStrings ==
  {<<"F", "P", "1">>, <<"F", "P", "2">>, <<"F", "P", "3">>,
   <<"Q">>, <<"S">>, <<"S", "Q">>, <<"R">>}

Triples == [year : FpYears, grand_prix : Names, session_name : KindStrings]

\* how an f-string formats a non-negative int: its decimal digits
DigitChars == <<"0", "1", "2", "3", "4", "5", "6", "7", "8", "9">>
RECURSIVE str(_)
str(n) ==
  IF n < 10 THEN <<DigitChars[n + 1]>>
            ELSE Append(str(n \div 10), DigitChars[(n % 10) + 1])

\* Variant of KeyString with the separators left out of the f-string
KeyString_nosep(t) == str(t.year) \o t.grand_prix \o t.session_name

\* line 67: key = f"{year}_{grand_prix}_{session_name}"; the identifier is
\* the first 12 hex digits of md5(key), a function of key alone
KeyString(t) == str(t.year) \o <<"_">> \o t.grand_prix \o <<"_">> \o t.session_name

\* _generate_session_id is applied to both triples
GenerateSessionId ==
  /\ fpIn # <<>> /\ fpKey = <<>>
  /\ fpKey' = <<KeyString(fpIn[1]), KeyString(fpIn[2])>>
  /\ UNCHANGED <<maps, heap, pool, counts, budget, pc, frame, fpIn>>

\* any two triples, the cache empty
InitKey ==
  /\ sessions = [i \in Ids |-> 0]
  /\ session_metadata = [i \in Ids |-> 0]
  /\ loading_states = [i \in Ids |-> "absent"]
  /\ loading_futures = [i \in Ids |-> 0]
  /\ objTel = <<>> /\ objFetches = <<>> /\ metaFull = <<>>
  /\ futures = <<>> /\ queue = <<>>
  /\ pc = [t \in Threads |-> "idle"]
  /\ frame = [t \in Threads |-> Blank]
  /\ nReduced = [i \in Ids |-> 0]
  /\ timedOut = {} /\ syncFailed = {}
  /\ calls = 0 /\ touched = 0
  /\ fpIn \in Triples \X Triples
  /\ fpKey = <<>>

SpecKey == InitKey /\ [][GenerateSessionId]_vars

\* ------------------------------------------------------------ specification
CallerStep(c) ==
  \/ CallGetSession(c) \/ LD82(c) \/ LD98(c) \/ LoadFetchEnds(c)
  \/ LD101(c) \/ LD102(c) \/ LD109(c) \/ GS169(c) \/ GS170(c) \/ GS174(c)
  \/ CallEnsure(c) \/ EN188(c) \/ EN192(c)
  \/ EN195Done(c) \/ EN195Timeout(c) \/ ENReturn(c)
  \/ CallClearSession(c) \/ CS314(c) \/ CS315(c) \/ CS316(c) \/ CS317(c)
  \/ CallClearAll(c) \/ CA324(c) \/ CA325(c) \/ CA326(c) \/ CA327(c)

UpgradeStep(t) ==
  \/ UP123(t) \/ UP124(t) \/ UP128(t) \/ UP129(t)
  \/ UP134(t) \/ UP142(t) \/ UP143(t) \/ UP150(t)

Next ==
  \/ \E c \in Callers : CallerStep(c)
  \/ \E w \in Workers : TakeTask(w)
  \/ \E c \in Callers : UP120(c)
  \/ \E t \in Threads : UpgradeStep(t)

Spec == Init /\ [][Next]_vars

\* Scheduling: a thread that is inside a call, a pool thread that has a task
\* to take or to go on with, keeps running; session.load returns or raises,
\* and the wait of line 195 ends after 120 s at the latest.  Nothing obliges
\* a request context to issue a further call.
Continue(c) ==
  \/ LD82(c) \/ LD98(c) \/ LoadFetchEnds(c)
  \/ LD101(c) \/ LD102(c) \/ LD109(c) \/ GS169(c) \/ GS170(c) \/ GS174(c)
  \/ EN188(c) \/ EN192(c) \/ EN195Done(c) \/ EN195Timeout(c) \/ ENReturn(c)
  \/ CS314(c) \/ CS315(c) \/ CS316(c) \/ CS317(c)
  \/ CA324(c) \/ CA325(c) \/ CA326(c) \/ CA327(c)
  \/ UP120(c) \/ UpgradeStep(c)

Run(w) == TakeTask(w) \/ UpgradeStep(w)

SpecLive ==
  /\ Init /\ [][Next]_vars
  /\ \A c \in Callers : WF_vars(Continue(c))
  /\ \A w \in Workers : WF_vars(Run(w))

\* The cache as the HTTP handlers drive it: POST /load, the analysis
\* endpoints (get_session_by_id, ensure_telemetry_loaded), GET /status
\* (get_loading_state, get_cache_info), GET /cache/info, DELETE /cache/clear.
ApiStep(c) ==
  \/ LoadSession(c) \/ LD82(c) \/ LoadFetchEnds(c)
  \/ LD101(c) \/ LD102(c) \/ LD109(c) \/ GS169(c) \/ GS170(c) \/ GS174(c)
  \/ CallEnsure(c) \/ EN188(c) \/ EN192(c)
  \/ EN195Done(c) \/ EN195Timeout(c) \/ ENReturn(c)
  \/ CallGetSessionById(c) \/ CallGetLoadingState(c)
  \/ CallGetCacheInfo(c) \/ GI339(c)
  \/ CallClearAll(c) \/ CA324(c) \/ CA325(c) \/ CA326(c) \/ CA327(c)

NextApi ==
  \/ \E c \in Callers : ApiStep(c)
  \/ \E w \in Workers : TakeTask(w)
  \/ \E c \in Callers : UP120(c)
  \/ \E t \in Threads : UpgradeStep(t)

SpecApi == Init /\ [][NextApi]_vars

\* ------------------------------------------------------------------ claims
UpgradeLabels == {"up120", "up123", "up124", "up128", "up129", "up134", "up142", "up143", "up150"}

\* upgrade fetches executing for identifier i: session.load of line 134, in a
\* pool thread or inline in a request context
FullFetchesInFlight(i) ==
  Cardinality({t \in Threads : pc[t] = "up134" /\ frame[t].sid = i})

\* no call of request context c is between two statements of a routine that
\* writes the dictionaries of identifier i
Settled(i) ==
  \A c \in Callers :
    \/ pc[c] \in {"idle", "en188", "en192", "en195", "en201", "en205"} \cup UpgradeLabels
    \/ (frame[c].op = "get_session" /\ frame[c].sid # i)
    \/ (frame[c].op = "clear_session" /\ frame[c].sid # i)

\* thread t takes a step
Steps(t) == pc'[t] # pc[t] \/ frame'[t] # frame[t]

\* context c returns from a call of operation o in this step
Returns(c, o) == pc[c] # "idle" /\ pc'[c] = "idle" /\ frame[c].op = o

\* no key of identifier i is left in any of the four dictionaries
Evicted(i) ==
  /\ sessions[i] = 0
  /\ session_metadata[i] = 0
  /\ loading_states[i] = "absent"
  /\ loading_futures[i] = 0

\* C1: for one identifier, at most one reduced fetch and at most one full
\* fetch are started between two evictions of its record, whatever calls are
\* made.
C1_IdempotentAcquisition ==
  \A i \in Ids :
    /\ nReduced[i] <= 1
    /\ sessions[i] # 0 => objFetches[sessions[i]] <= 1

\* C2: at most one full-fidelity fetch executes at a time for an identifier,
\* counting the pool task and the inline fetch of ensure_telemetry_loaded.
C2_AtMostOneFullFetchInFlight ==
  \A i \in Ids : FullFetchesInFlight(i) <= 1

\* C3: when ensure_telemetry_loaded returns True, the record's metadata has
\* full_load = True at that moment.
C3_TrueMeansFullyLoaded ==
  [][\A c \in Callers :
       (Returns(c, "ensure") /\ frame'[c].ret = "True") => is_fully_loaded(frame[c].sid)']_vars

\* C4: a call of ensure_telemetry_loaded whose wait timed out starts no full
\* fetch in its own context and returns False.
C4_TimeoutReturnsFalseNoFetch ==
  \A c \in Callers :
    frame[c].op = "ensure" /\ frame[c].cont = "en201" =>
      /\ pc[c] # "up134"
      /\ pc[c] = "idle" => frame[c].ret = "False"

\* C5: once a wait has timed out on an identifier and its pool task has then
\* completed the upgrade, a further ensure_telemetry_loaded call returns True
\* and exactly one full fetch has been started for the identifier.
C5_TimeoutDoesNotCorrupt ==
  \A c \in Callers :
    LET i == frame[c].sid IN
      ( /\ pc[c] = "idle" /\ frame[c].op = "ensure" /\ frame[c].ret # "none"
        /\ frame[c].cont # "en201"
        /\ i \in timedOut
        /\ loading_futures[i] # 0
        /\ futures[loading_futures[i]].st = "done_ok" )
      => (frame[c].ret = "True" /\ sessions[i] # 0 /\ objFetches[sessions[i]] = 1)

\* C6: full_load of an identifier, once True, stays True in every step that
\* leaves the identifier's metadata in the cache (only clear_session and
\* clear_all_sessions remove it).
C6_MonotonicFidelity ==
  [][\A i \in Ids :
       (is_fully_loaded(i) /\ session_metadata'[i] # 0) => is_fully_loaded(i)']_vars

\* C7: when the full fetch of an upgrade fails, neither the failure nor its
\* handler (lines 147-150) touches the cached datasets or any full_load flag:
\* get_session_by_id still returns the handle stored by get_session, and a
\* record that was not fully loaded stays not fully loaded.
C7_DegradeNotDestroy ==
  [][\A t \in Threads :
       ((pc[t] = "up134" /\ pc'[t] = "up150") \/ (pc[t] = "up150" /\ Steps(t))) =>
         /\ \A i \in Ids : get_session_by_id(i)' = get_session_by_id(i)
         /\ \A i \in Ids : is_fully_loaded(i)' = is_fully_loaded(i)
         /\ metaFull' = metaFull]_vars

\* a full fetch failed, the reduced dataset is still served, not flagged full
C7_Witness ==
  \E f \in 1..Len(futures) :
    /\ futures[f].st = "done_fail"
    /\ get_session_by_id(futures[f].sid) # 0
    /\ objFetches[get_session_by_id(futures[f].sid)] = 1
    /\ ~objTel[get_session_by_id(futures[f].sid)]
    /\ ~is_fully_loaded(futures[f].sid)
    /\ loading_states[futures[f].sid] = "ready"

\* C8: once clear_session has removed every key of an identifier, no step of
\* an upgrade still running for that identifier puts a key back.
C8_NoResurrection ==
  [][\A t \in Threads :
       (pc[t] \in UpgradeLabels /\ Steps(t) /\ Evicted(frame[t].sid))
         => Evicted(frame[t].sid)']_vars

\* C9: whenever no call is half-way through writing the record, a record is
\* flagged fully loaded only if the dataset cached for it has had its own
\* successful full fetch (a late upgrade of an evicted dataset does not flag
\* the record acquired after it).
C9_FlagOnlyAfterOwnFullFetch ==
  \A i \in Ids :
    (Settled(i) /\ sessions[i] # 0 /\ is_fully_loaded(i)) => objTel[sessions[i]]

\* C10: get_session on an identifier that has a record (the else branch of
\* line 163) changes no dictionary, object, future or queue, starts no fetch,
\* and returns the handle cached for the identifier.
C10_CachedAcquireIsPure ==
  [][\A c \in Callers :
       (Steps(c) /\ frame'[c].op = "get_session" /\ frame'[c].cont = "gs172") =>
         /\ UNCHANGED <<maps, heap, pool, counts>>
         /\ (pc'[c] = "idle" /\ sessions[frame'[c].sid] # 0) =>
              (frame'[c].ret = "handle" /\ frame'[c].rv = sessions[frame'[c].sid])]_vars

\* a second get_session has returned the cached handle: one reduced fetch
C10_Witness ==
  \E c \in Callers :
    /\ pc[c] = "idle" /\ frame[c].op = "get_session" /\ frame[c].cont = "gs172"
    /\ frame[c].ret = "handle" /\ frame[c].rv = sessions[frame[c].sid]
    /\ nReduced[frame[c].sid] = 1

C12_ErrorRecordListed ==
  \A c \in Callers :
    (pc[c] = "idle" /\ frame[c].op = "get_cache_info" /\ frame[c].ret = "info") =>
      \A i \in Ids :
        loading_states[i] = "error" =>
          (i \in DOMAIN frame[c].info /\ frame[c].info[i].loading_state = "error")

\* C13: ERROR is absorbing: while an identifier's loading state is ERROR, no
\* step of a get_session, ensure_telemetry_loaded or get_session_by_id call
\* on it changes the state or starts a fetch for it.
C13_ErrorAbsorbing ==
  [][\A c \in Callers, i \in Ids :
       ( /\ loading_states[i] = "error"
         /\ Steps(c)
         /\ frame'[c].op \in {"get_session", "ensure", "get_session_by_id"}
         /\ frame'[c].sid = i )
       => /\ loading_states'[i] = "error"
          /\ nReduced'[i] = nReduced[i]
          /\ pc'[c] \notin {"ld90", "ld99", "up134"}]_vars

\* C14: every change of an identifier's loading state is a transition of the
\* state machine: PENDING -> LOADING_BASIC, LOADING_BASIC -> READY or ERROR
\* (or on to LOADING_TELEMETRY in a full-mode load), READY(reduced) ->
\* LOADING_TELEMETRY, LOADING_TELEMETRY -> READY(full) or ERROR; so an upgrade
\* whose fetch fails leaves the record in ERROR.  Removal by clear_session /
\* clear_all_sessions is allowed; changes out of ERROR are C13's subject and
\* are not judged here.
C14_StateMachineTransitions ==
  [][\A i \in Ids :
       loading_states'[i] # loading_states[i] =>
         \/ loading_states'[i] = "absent"
         \/ loading_states[i] = "error"
         \/ loading_states[i] = "absent" /\ loading_states'[i] = "loading_basic"
         \/ /\ loading_states[i] = "loading_basic"
            /\ loading_states'[i] \in {"ready", "error", "loading_telemetry"}
         \/ /\ loading_states[i] = "ready" /\ ~is_fully_loaded(i)
            /\ loading_states'[i] = "loading_telemetry"
         \/ loading_states[i] = "loading_telemetry" /\ loading_states'[i] = "error"
         \/ /\ loading_states[i] = "loading_telemetry"
            /\ loading_states'[i] = "ready" /\ is_fully_loaded(i)']_vars

\* C15: when the task ensure_telemetry_loaded waits on has finished with a
\* failed full fetch, the call does not return from the wait but runs the
\* upgrade in its own context (line 200), and what it then returns is True
\* exactly if the record is fully loaded.
C15_FallbackOnFailedUpgrade ==
  [][\A c \in Callers :
       /\ (pc[c] = "en195" /\ Steps(c) /\ futures[frame[c].future].st = "done_fail")
            => pc'[c] = "up120"
       /\ (Returns(c, "ensure") /\ frame[c].cont = "en201")
            => (frame'[c].ret = "True" <=> is_fully_loaded(frame[c].sid)')]_vars

\* C16: when the metadata read at line 186 has full_load = True,
\* ensure_telemetry_loaded returns True at line 189: it waits on no future,
\* starts no fetch and changes no dictionary, object, future or queue.
C16_FastPath ==
  [][\A c \in Callers :
       /\ (pc[c] = "idle" /\ Steps(c) /\ frame'[c].op = "ensure")
            => (pc'[c] = "en188" /\ UNCHANGED <<maps, heap, pool, counts>>)
       /\ (pc[c] = "en188" /\ Steps(c) /\ full_load(frame[c].metadata))
            => /\ pc'[c] = "idle" /\ frame'[c].ret = "True"
               /\ UNCHANGED <<maps, heap, pool, counts>>]_vars

\* ensure_telemetry_loaded has returned True on a fully loaded record that
\* has no future (a full-mode load): only the fast path returns True there
C16_Witness ==
  \E c \in Callers :
    /\ pc[c] = "idle" /\ frame[c].op = "ensure" /\ frame[c].ret = "True"
    /\ frame[c].cont = "none"
    /\ is_fully_loaded(frame[c].sid)
    /\ loading_futures[frame[c].sid] = 0
    /\ sessions[frame[c].sid] # 0 /\ objFetches[sessions[frame[c].sid]] = 1

\* C17: get_session_by_id returns the handle cached for the identifier, or
\* None when there is none; get_loading_state returns the identifier's state
\* and get_cache_info returns its listing; no step of the three changes a
\* dictionary, object, future or queue, or starts a fetch.
C17_ReadOnlyLookups ==
  [][\A c \in Callers :
       (Steps(c) /\ frame'[c].op \in {"get_session_by_id", "get_loading_state", "get_cache_info"})
       => /\ UNCHANGED <<maps, heap, pool, counts>>
          /\ pc'[c] = "idle" =>
               /\ frame'[c].op = "get_session_by_id" =>
                    IF sessions[frame'[c].sid] = 0
                      THEN frame'[c].ret = "None"
                      ELSE frame'[c].ret = "handle" /\ frame'[c].rv = sessions[frame'[c].sid]
               /\ frame'[c].op = "get_loading_state" =>
                    frame'[c].ret = get_loading_state(frame'[c].sid)
               /\ frame'[c].op = "get_cache_info" => frame'[c].ret = "info"]_vars

\* C18: clear_session on an identifier with a record removes its dataset,
\* metadata, loading state and future together: when it returns True no key
\* of the identifier is left; and a call that returns False has changed
\* nothing.
C18_EvictWholeRecord ==
  [][\A c \in Callers :
       /\ (Returns(c, "clear_session") /\ frame'[c].ret = "True")
            => Evicted(frame[c].sid)'
       /\ (Steps(c) /\ frame'[c].op = "clear_session" /\ frame'[c].ret = "False")
            => UNCHANGED <<maps, heap, pool>>]_vars

\* C19: clear_all_sessions returns the number of datasets that were cached
\* when it was called and leaves the cache empty: when it returns, no
\* identifier has a dataset, metadata, loading state or future, and
\* get_cache_info has nothing to list.
C19_ClearAllEmpties ==
  [][\A c \in Callers :
       /\ (pc[c] = "idle" /\ Steps(c) /\ frame'[c].op = "clear_all")
            => frame'[c].rv = Cardinality({i \in Ids : get_session_by_id(i) # 0})
       /\ Returns(c, "clear_all")
            => /\ frame'[c].ret = "count" /\ frame'[c].rv = frame[c].rv
               /\ \A i \in Ids : Evicted(i)'
               /\ get_cache_info' = [cached_sessions |-> 0, sessions |-> NoInfo]]_vars

\* C20: a POST /load body with a season outside 2018..2025, an empty event
\* name or a kind outside the seven enum values is answered with a
\* validation error at once: get_session is not entered, no fetch starts,
\* and no dictionary, object, future or queue changes.
C20_MalformedRejected ==
  [][\A c \in Callers :
       ( /\ pc[c] = "idle" /\ Steps(c) /\ frame'[c].req # NoRequest
         /\ \/ frame'[c].req.year < 2018 \/ frame'[c].req.year > 2025
            \/ frame'[c].req.grand_prix = 0
            \/ frame'[c].req.session_name \notin {"FP1", "FP2", "FP3", "Q", "S", "SQ", "R"} )
       => /\ pc'[c] = "idle" /\ frame'[c].op = "load_session" /\ frame'[c].ret = "HTTP422"
          /\ UNCHANGED <<maps, heap, pool, counts>>]_vars

\* a malformed body was rejected while a record was cached: the record, its
\* future and the fetch count are as the earlier load left them
C20_Witness ==
  \E c \in Callers :
    /\ pc[c] = "idle" /\ frame[c].op = "load_session" /\ frame[c].ret = "HTTP422"
    /\ frame[c].req.year = 2026
    /\ sessions[1] # 0 /\ loading_futures[1] # 0 /\ nReduced[1] = 1
    /\ Len(futures) = 1 /\ sessions[2] = 0 /\ loading_states[2] = "absent"

\* the identifier a step of thread t works on
Subject(t) == IF frame'[t].sid # 0 THEN frame'[t].sid ELSE frame[t].sid

\* what the cache holds for identifier i: the four dictionary entries, the
\* content of its dataset and the flag of its metadata dict
RecordOf(i) ==
  <<sessions[i], session_metadata[i], loading_states[i], loading_futures[i],
    IF sessions[i] = 0 THEN FALSE ELSE objTel[sessions[i]],
    is_fully_loaded(i)>>

\* C21: a step of get_session, ensure_telemetry_loaded, clear_session or of
\* an upgrade for one identifier changes nothing of what the cache holds for
\* any other identifier: dataset, metadata, loading state, future.
C21_CrossIdentifierIndependence ==
  [][\A t \in Threads :
       ( /\ Steps(t)
         /\ \/ frame'[t].op \in {"get_session", "ensure", "clear_session", "upgrade"}
            \/ frame[t].op = "upgrade" )
       => \A b \in Ids : b # Subject(t) => RecordOf(b)' = RecordOf(b)]_vars

\* identifier 1 was evicted by clear_session while identifier 2 stays cached,
\* complete and READY
C21_Witness ==
  \E c \in Callers :
    /\ pc[c] = "idle" /\ frame[c].op = "clear_session" /\ frame[c].sid = 1
    /\ frame[c].ret = "True"
    /\ Evicted(1)
    /\ sessions[2] # 0 /\ session_metadata[2] # 0 /\ loading_states[2] = "ready"
    /\ loading_futures[2] # 0

\* an upgrade task submitted for identifier i waits in the executor queue
Scheduled(i) ==
  \E f \in 1..Len(futures) : futures[f].sid = i /\ futures[f].st = "pending"

\* the full fetch of an upgrade task of identifier i has failed
UpgradeFailed(i) ==
  \E f \in 1..Len(futures) : futures[f].sid = i /\ futures[f].st = "done_fail"

\* C22: once get_session has submitted the upgrade of an identifier, the
\* record eventually is READY with full_load = True, unless its dataset is
\* evicted or the full fetch fails; no further call is needed for it.
C22_UpgradeLiveness ==
  \A i \in Ids :
    Scheduled(i) ~>
      \/ loading_states[i] = "ready" /\ is_fully_loaded(i)
      \/ get_session_by_id(i) = 0
      \/ UpgradeFailed(i)

\* one get_session, no other call: the pool task has upgraded the record
C22_Witness ==
  /\ calls = 1
  /\ Len(futures) = 1 /\ futures[1].st = "done_ok"
  /\ loading_states[1] = "ready" /\ is_fully_loaded(1)
  /\ objTel[sessions[1]]

\* upgrade tasks of identifier i that were submitted and have not completed
Uncompleted(i) ==
  {f \in 1..Len(futures) : futures[f].sid = i /\ futures[f].st \in {"pending", "running"}}

\* C23: a first quick get_session whose reduced fetch succeeded has submitted
\* one upgrade task and recorded it in _loading_futures when it returns; and
\* never are two upgrade tasks of one identifier submitted and not completed.
C23_OneUpgradeTask ==
  [][/\ \A i \in Ids : Cardinality(Uncompleted(i)') <= 1
     /\ \A c \in Callers :
          (Returns(c, "get_session") /\ frame[c].quick /\ frame[c].cont # "gs172"
             /\ frame'[c].ret = "handle")
          => /\ frame[c].future # 0
             /\ futures[frame[c].future].sid = frame[c].sid
             /\ loading_futures'[frame[c].sid] = frame[c].future]_vars

\* statements inside _load_session_sync, _upgrade_session_sync, clear_session
MutatingLabels ==
  {"ld82", "ld90", "ld98", "ld99", "ld101", "ld102", "ld109"}
    \cup UpgradeLabels \cup {"cs314", "cs315", "cs316", "cs317"}

\* threads that are inside a record-mutating routine for identifier i
Mutators(i) == {t \in Threads : pc[t] \in MutatingLabels /\ frame[t].sid = i}

\* C24: at no time are two threads inside _load_session_sync,
\* _upgrade_session_sync or clear_session for the same identifier.
C24_MutationsSerialized ==
  \A i \in Ids : Cardinality(Mutators(i)) <= 1

\* C25: when the fetch that ensure_telemetry_loaded runs in its own context
\* fails, the failure and its handler leave the dataset and the metadata
\* cached and the flag unset; and from then on, as long as the record is
\* cached and not fully loaded, an ensure_telemetry_loaded call on it returns
\* only after running the upgrade in its own context again, with False.
C25_SyncFailureRetried ==
  [][\A c \in Callers :
       /\ ((pc[c] = "up134" /\ pc'[c] = "up150") \/ (pc[c] = "up150" /\ Steps(c)))
            => /\ sessions' = sessions /\ session_metadata' = session_metadata
               /\ is_fully_loaded(frame[c].sid)' = is_fully_loaded(frame[c].sid)
       /\ ( /\ Returns(c, "ensure")
            /\ frame[c].sid \in syncFailed
            /\ sessions[frame[c].sid] # 0 /\ ~is_fully_loaded(frame[c].sid) )
            => /\ frame[c].cont \in {"en201", "en205"}
               /\ frame'[c].ret = "False"]_vars

\* C26: the key string _generate_session_id hashes is the same for equal
\* triples and different for any two different triples whose session_name is
\* one of the seven SessionType values.
C26_KeyStringInjective ==
  fpKey # <<>> => ((fpIn[1] = fpIn[2]) <=> (fpKey[1] = fpKey[2]))

\* two triples that differ only in where the 'S' stands have got different
\* key strings
C26_Witness ==
  /\ fpKey # <<>>
  /\ fpIn[1] = [year |-> 2018, grand_prix |-> <<"S">>, session_name |-> <<"Q">>]
  /\ fpIn[2] = [year |-> 2018, grand_prix |-> <<>>, session_name |-> <<"S", "Q">>]
  /\ fpKey[1] = <<"2", "0", "1", "8", "_", "S", "_", "Q">>
  /\ fpKey[2] = <<"2", "0", "1", "8", "_", "_", "S", "Q">>

\* no thread is inside get_session, ensure_telemetry_loaded, clear_session or
\* _upgrade_session_sync (nor inside any other operation)
Quiescent == \A t \in Threads : pc[t] = "idle"

\* C27: whenever no acquire, ensure, evict or upgrade task is mid-execution,
\* the identifiers with a cached dataset are the identifiers with metadata,
\* every identifier with a future in _loading_futures has a cached dataset,
\* and cached_sessions of get_cache_info is the number of sessions it lists.
C27_QuiescentDictionariesAgree ==
  Quiescent =>
    /\ {i \in Ids : sessions[i] # 0} = metadata_keys
    /\ \A i \in Ids : loading_futures[i] # 0 => sessions[i] # 0
    /\ get_cache_info.cached_sessions = Cardinality(DOMAIN get_cache_info.sessions)

\* labels of _load_session_sync (lines 82-109)
LoadLabels == {"ld82", "ld90", "ld98", "ld99", "ld101", "ld102", "ld109"}

\* a thread is inside _load_session_sync or _upgrade_session_sync for
\* identifier i
LoadOrUpgradeRunning(i) ==
  \E t \in Threads : pc[t] \in LoadLabels \cup UpgradeLabels /\ frame[t].sid = i

\* a thread is between the four removals of clear_session (lines 314-317) for
\* identifier i, or inside clear_all_sessions (lines 323-328)
EvictRunning(i) ==
  \E t \in Threads :
    \/ pc[t] \in {"cs314", "cs315", "cs316", "cs317"} /\ frame[t].sid = i
    \/ pc[t] \in {"ca324", "ca325", "ca326", "ca327"}

\* C28: whenever no load or upgrade routine is mid-execution for an
\* identifier, full_load = True in its metadata implies that a dataset is
\* cached for it and that its loading state is READY; a record left in ERROR
\* is never flagged fully loaded.  (States in the middle of a clear_session
\* of the identifier or of a clear_all_sessions are not judged either.)
C28_FullFlagMeansReadyDataset ==
  \A i \in Ids :
    (~LoadOrUpgradeRunning(i) /\ ~EvictRunning(i)) =>
      /\ is_fully_loaded(i) => (sessions[i] # 0 /\ loading_states[i] = "ready")
      /\ loading_states[i] = "error" => ~is_fully_loaded(i)

\* C29: ensure_telemetry_loaded on an identifier that has no key in any of
\* the four dictionaries when it is called issues no fetch, creates no
\* dataset, metadata, loading state, future or task, and returns False.
C29_EnsureWithoutRecord ==
  [][\A c \in Callers :
       (pc[c] # "idle" /\ Steps(c) /\ frame[c].op = "ensure" /\ frame[c].norecord) =>
         /\ UNCHANGED <<maps, heap, pool>>
         /\ pc'[c] = "idle" => frame'[c].ret = "False"]_vars

\* C30: clear_session returns True exactly when a dataset is cached for the
\* identifier when it is called (a call that finds a dataset returns nothing
\* but True, a call that finds none returns False at once and changes
\* nothing); for an identifier left in ERROR with no dataset it returns False
\* and get_loading_state still reports ERROR after it.
C30_EvictReturnValue ==
  [][\A c \in Callers :
       /\ (pc[c] = "idle" /\ Steps(c) /\ frame'[c].op = "clear_session") =>
             /\ sessions[frame'[c].sid] # 0 => pc'[c] = "cs314"
             /\ sessions[frame'[c].sid] = 0 =>
                   /\ pc'[c] = "idle" /\ frame'[c].ret = "False"
                   /\ UNCHANGED <<maps, heap, pool>>
             /\ (sessions[frame'[c].sid] = 0 /\ loading_states[frame'[c].sid] = "error") =>
                   loading_states'[frame'[c].sid] = "error"
       /\ (pc[c] # "idle" /\ Returns(c, "clear_session")) => frame'[c].ret = "True"]_vars

\* clear_session has returned False for an identifier whose reduced fetch
\* failed, and get_loading_state reports ERROR for it
C30_Witness ==
  \E c \in Callers, i \in Ids :
    /\ pc[c] = "idle" /\ frame[c].op = "clear_session" /\ frame[c].sid = i
    /\ frame[c].ret = "False"
    /\ sessions[i] = 0 /\ get_loading_state(i) = "error"
====
